---- MODULE Spec2Model ----
(***************************************************************************)
(* Realtime session layer of the game client: NakamaService                *)
(* (services/nakama.ts).  The service is a singleton whose methods are     *)
(* asynchronous; every action below is one synchronous run of JavaScript   *)
(* (a method call up to its first await, the continuation after an await,  *)
(* or an event handler), so the interleavings of the model are the         *)
(* interleavings of the event loop.                                        *)
(***************************************************************************)
EXTENDS Integers, Sequences, FiniteSets, TLC

\* ---------------------------------------------------------------- bounds
MaxSockets == 2      \* socket objects alive at the same time
MaxDeletes == 2      \* deleteUserData invocations past the guard at a time
MaxNames == 1        \* nicknames the user logs in with
MaxOpCode == 6       \* op_code values of inbound envelopes: 0..MaxOpCode
MaxMatches == 1      \* match ids the service hands out
MaxRequests == 1     \* match requests awaiting their response
MaxInits == 1        \* init() calls of the voice service in flight
MaxStray == 2        \* media objects of one kind the voice service lost hold of
MaxHandlers == 1     \* signaling messages the voice service is handling

\* ------------------------------------------------------ program constants
InitialMaxReconnectAttempts == 10
BaseDelay == 1000
CapDelay == 30000
STATE_UPDATE == 1
MAKE_MOVE == 2
WEBRTC_OFFER == 3
WEBRTC_ANSWER == 4
WEBRTC_ICE_CANDIDATE == 5

VARIABLES
    session,               \* this.session is not null
    socket,                \* this.socket: the socket object, or Null
    matchId,               \* this.matchId (0 = null)
    connectionStatus,      \* this.connectionStatus
    reconnectAttempts,     \* this.reconnectAttempts
    maxReconnectAttempts,  \* this.maxReconnectAttempts
    isLoggingOut,          \* this.isLoggingOut
    timers,                \* pending setTimeout callbacks of attemptReconnect
    leaked,                \* socket objects the service no longer refers to
    dels,                  \* deleteUserData invocations awaiting their race
    fatalRaised,           \* the fatal notification was raised since the
                           \* last successful connection
    deviceId,              \* localStorage holds "nakama_device_id"
    username,              \* localStorage "nakama_username" (0 = absent)
    authCalled,            \* authenticate has been called: its continuations
                           \* run from then on
    voice                  \* the VoiceChatService singleton and the media
                           \* objects it created

serviceVars == << session, socket, matchId, connectionStatus,
                  reconnectAttempts, maxReconnectAttempts, isLoggingOut,
                  timers, leaked, dels, fatalRaised, deviceId, username,
                  authCalled >>

vars == << serviceVars, voice >>

ConnectionStatus == {"disconnected", "connecting", "connected", "reconnecting"}

Min(a, b) == IF a < b THEN a ELSE b

\* -------------------------------------------------------- messages raised
ErrConnect == "Failed to connect to server. Please try again."
ErrFatal == "Lost connection to server. Please refresh the page."
ErrAuth == "Failed to authenticate. Please try again."
ErrNameTaken == "Username is already taken. Please choose another one."
ErrNoSocket == "Socket not connected"
ErrInProgress == "Delete already in progress"
ErrServer == "Server reported failure"
ErrTimedOut == "Request timed out"
ErrException == "exception"
ErrFind == "Failed to find match. Please try again."
ErrJoin == "Failed to join match. Please try again."
ErrMove == "Failed to send move. Please try again."

Ev(t, x, y) == [type |-> t, a |-> x, b |-> y]

\* ----------------------------------------------------------- socket objects
\* state:   connecting | open | closing (its close event is due) | closed
\* handler: the value of socket.ondisconnect: "service" is the closure made
\*          by connectSocket, "delete" the closure made by the deleteUserData
\*          invocation in flight, "stale" the closure of one that returned
\* conn:    where the connectSocket invocation that made the socket stands
\* byTimer: that invocation was made by the reconnect timer
\* rpc:     the deleteUserData invocation whose request went out on this
\*          socket and is unanswered (0 = none)
\* onmatchdata: socket.onmatchdata is bound to handleMatchData
\* reqs:    the match requests sent on this socket and not yet answered
\* joined:  the matches the service holds the presence of this socket in; the
\*          service drops them when the socket closes
NoHandler == [kind |-> "none", k |-> 0]
ServiceHandler == [kind |-> "service", k |-> 0]
DeleteHandler(k) == [kind |-> "delete", k |-> k]
StaleHandler == [kind |-> "stale", k |-> 0]

Null == [state |-> "null", handler |-> NoHandler, conn |-> "none",
         byTimer |-> FALSE, rpc |-> 0, onmatchdata |-> FALSE, reqs |-> {},
         joined |-> {}]

\* a socket object that can still raise an event or resume an invocation
Live(x) ==
    x.state \in {"connecting", "open", "closing"} \/ x.conn # "none" \/ x.reqs # {}

DelIds == 1..MaxDeletes

NoDelete == [pc |-> "idle", socketDisconnected |-> FALSE,
             originalMaxReconnect |-> 0, originalDisconnect |-> NoHandler]

\* The state as a value; out collects the callbacks, results and log lines
\* that a run of code raises.
St == [session |-> session, socket |-> socket, matchId |-> matchId,
       connectionStatus |-> connectionStatus,
       reconnectAttempts |-> reconnectAttempts,
       maxReconnectAttempts |-> maxReconnectAttempts,
       isLoggingOut |-> isLoggingOut, timers |-> timers, leaked |-> leaked,
       dels |-> dels, out |-> << >>, fatalRaised |-> fatalRaised,
       deviceId |-> deviceId, username |-> username,
       authCalled |-> authCalled]

Become(r) ==
    /\ session' = r.session
    /\ socket' = r.socket
    /\ matchId' = r.matchId
    /\ connectionStatus' = r.connectionStatus
    /\ reconnectAttempts' = r.reconnectAttempts
    /\ maxReconnectAttempts' = r.maxReconnectAttempts
    /\ isLoggingOut' = r.isLoggingOut
    /\ timers' = r.timers
    /\ leaked' = {x \in r.leaked : Live(x)}
    /\ dels' = r.dels
    /\ fatalRaised' = r.fatalRaised
    /\ deviceId' = r.deviceId
    /\ username' = r.username
    /\ authCalled' = r.authCalled
    /\ UNCHANGED voice

Emit(r, e) == [r EXCEPT !.out = Append(@, e)]

\* the value a method resolved with
Return(r, method, value) == Emit(r, Ev("return", method, value))

\* A socket object is named by its value and by whether it is the one
\* this.socket refers to.
This(r) == [this |-> TRUE, x |-> r.socket]

Refs(r) == (IF r.socket.state # "null" THEN {This(r)} ELSE {})
           \cup {[this |-> FALSE, x |-> x] : x \in r.leaked}

Put(r, ref, y) ==
    IF ref.this THEN [r EXCEPT !.socket = y]
    ELSE [r EXCEPT !.leaked = (@ \ {ref.x}) \cup {y}]

\* ------------------------------------------------ NakamaService internals
onError(r, msg) ==
    LET r1 == Emit(r, Ev("error", msg, ""))
    IN IF msg = ErrFatal THEN [r1 EXCEPT !.fatalRaised = TRUE] ELSE r1

setConnectionStatus(r, status) ==
    IF r.connectionStatus # status
    THEN Emit([r EXCEPT !.connectionStatus = status],
              Ev("status", r.connectionStatus, status))
    ELSE r

\* a backoff whose exponent is the attempt number
delay_ExponentN(n) == Min(BaseDelay * 2^n, CapDelay)

delay(n) == Min(BaseDelay * 2^(n - 1), CapDelay)

\* the pending timer this.reconnectTimeout refers to, if it is still pending
reconnectTimeout(r) == {t \in r.timers : t.held}

attemptReconnect(r) ==
    LET cleared == [r EXCEPT !.timers = @ \ reconnectTimeout(r)]
        n == r.reconnectAttempts + 1
        r1 == [cleared EXCEPT !.reconnectAttempts = n]
        r2 == setConnectionStatus(r1, "reconnecting")
    IN [r2 EXCEPT !.timers = {[t EXCEPT !.held = FALSE] : t \in @}
                     \cup {[held |-> TRUE, delay |-> delay(n), attempt |-> n]}]

\* a closure that does not compare reconnectAttempts with the ceiling
ondisconnect_NoCeiling(r) ==
    LET r1 == setConnectionStatus(r, "disconnected")
    IN IF r1.isLoggingOut THEN r1
       ELSE IF r1.session /\ r1.maxReconnectAttempts > 0
            THEN attemptReconnect(r1)
            ELSE r1

\* the closure installed as socket.ondisconnect by connectSocket
ondisconnect(r) ==
    LET r1 == setConnectionStatus(r, "disconnected")
    IN IF r1.isLoggingOut THEN r1
       ELSE IF /\ r1.session
               /\ r1.maxReconnectAttempts > 0
               /\ r1.reconnectAttempts < r1.maxReconnectAttempts
            THEN attemptReconnect(r1)
            ELSE r1

\* the closure installed by deleteUserData invocation k
disconnectHandler(r, k) == [r EXCEPT !.dels[k].socketDisconnected = TRUE]

\* a socket object raises its disconnect event: socket.ondisconnect(evt)
FireDisconnect(r, h) ==
    IF h.kind = "service" THEN ondisconnect(r)
    ELSE IF h.kind = "delete" THEN disconnectHandler(r, h.k)
    ELSE r

\* this.socket = y; the object referred to before lives on in the library
Assign(r, y) ==
    [r EXCEPT !.socket = y,
              !.leaked = IF r.socket.state # "null" THEN @ \cup {r.socket} ELSE @]

\* socket.disconnect(fireDisconnectEvent) of the client library: closes an
\* open socket (its close event follows) and, as the service passes true,
\* calls socket.ondisconnect at once
FireDisconnectEvent == TRUE

SocketDisconnect(r) ==
    LET x == r.socket
        y == IF x.state = "open"
             THEN [x EXCEPT !.state = "closing", !.joined = {}]
             ELSE x
        r1 == [r EXCEPT !.socket = y]
    IN IF FireDisconnectEvent THEN FireDisconnect(r1, y.handler) ELSE r1

\* a disconnect that leaves this.matchId as it is
disconnect_KeepsMatch(r) ==
    LET r1 == IF r.socket.state # "null" THEN Assign(SocketDisconnect(r), Null) ELSE r
    IN [r1 EXCEPT !.session = FALSE]

disconnect(r) ==
    LET r1 == IF r.socket.state # "null"
              THEN Assign(SocketDisconnect(r), Null)
              ELSE r
    IN [r1 EXCEPT !.session = FALSE, !.matchId = 0]

\* isAuthenticated()
isAuthenticated(r) == r.session /\ r.socket.state # "null"

\* the callback of the reconnect timer, after connectSocket has returned
AfterReconnect(r, success) ==
    IF ~success /\ r.reconnectAttempts >= r.maxReconnectAttempts
    THEN onError(r, ErrFatal)
    ELSE r

\* a connectSocket that opens the socket before it installs onmatchdata
connectSocket_LateHandler(r, byTimer) ==
    IF ~r.session
    THEN IF byTimer THEN AfterReconnect(r, FALSE)
         ELSE Return(r, "connectSocket", "false")
    ELSE Assign(setConnectionStatus(r, "connecting"),
                [state |-> "connecting", handler |-> ServiceHandler,
                 conn |-> "awaitConnect", byTimer |-> byTimer, rpc |-> 0,
                 onmatchdata |-> FALSE, reqs |-> {}, joined |-> {}])

\* connectSocket up to `await this.socket.connect(...)`
connectSocket(r, byTimer) ==
    IF ~r.session
    THEN IF byTimer THEN AfterReconnect(r, FALSE)
         ELSE Return(r, "connectSocket", "false")
    ELSE Assign(setConnectionStatus(r, "connecting"),
                [state |-> "connecting", handler |-> ServiceHandler,
                 conn |-> "awaitConnect", byTimer |-> byTimer, rpc |-> 0,
                 onmatchdata |-> TRUE, reqs |-> {}, joined |-> {}])

\* connectSocket after socket.connect resolved: the grace delay starts
connectResolved(r, ref, x) == Put(r, ref, [x EXCEPT !.conn = "awaitGrace"])

\* a continuation that leaves reconnectAttempts as it is
connectReady_KeepsAttempts(r, ref) ==
    LET r1 == Put(r, ref, [ref.x EXCEPT !.conn = "none"])
        r2 == setConnectionStatus(r1, "connected")
        r3 == [r2 EXCEPT !.fatalRaised = FALSE]
    IN IF ref.x.byTimer THEN AfterReconnect(r3, TRUE)
       ELSE Return(r3, "connectSocket", "true")

\* connectSocket after the grace delay
connectReady(r, ref) ==
    LET r1 == Put(r, ref, [ref.x EXCEPT !.conn = "none"])
        r2 == setConnectionStatus(r1, "connected")
        r3 == [r2 EXCEPT !.reconnectAttempts = 0, !.fatalRaised = FALSE]
    IN IF ref.x.byTimer THEN AfterReconnect(r3, TRUE)
       ELSE Return(r3, "connectSocket", "true")

\* connectSocket's catch block
connectFailed(r, ref, x) ==
    LET r1 == Put(r, ref, [x EXCEPT !.conn = "none"])
        r2 == setConnectionStatus(r1, "disconnected")
        r3 == IF ~r2.isLoggingOut THEN onError(r2, ErrConnect) ELSE r2
    IN IF x.byTimer THEN AfterReconnect(r3, FALSE)
       ELSE Return(r3, "connectSocket", "false")

\* connectSocket can make one more socket object within the bound
RoomFor(r, bound) ==
    Cardinality({x \in r.leaked \cup {r.socket} : Live(x)}) < bound

\* ------------------------------------------------------- deleteUserData
DeleteResult(r, outcome, error) == Emit(r, Ev("deleteResult", outcome, error))

FreeDels(r) == {k \in DelIds : r.dels[k].pc = "idle"}

\* the invocation returns: its closure and its request are history
Forget(x, k) ==
    [x EXCEPT !.handler = IF @ = DeleteHandler(k) THEN StaleHandler ELSE @,
              !.rpc = IF @ = k THEN 0 ELSE @]

DeleteReturn(r, k) ==
    [r EXCEPT !.dels[k] = NoDelete,
              !.socket = Forget(@, k),
              !.leaked = {Forget(x, k) : x \in @}]

RestoreAndClear(r, k) ==
    [r EXCEPT !.maxReconnectAttempts = r.dels[k].originalMaxReconnect,
              !.isLoggingOut = FALSE]

\* a deleteUserData without the isLoggingOut guard
deleteUserData_Unguarded(r) ==
    IF r.socket.state = "null" THEN DeleteResult(r, "failure", ErrNoSocket)
    ELSE LET k == CHOOSE k \in FreeDels(r) : \A u \in FreeDels(r) : k <= u
         IN [r EXCEPT !.isLoggingOut = TRUE,
                      !.maxReconnectAttempts = 0,
                      !.dels[k] = [pc |-> "race", socketDisconnected |-> FALSE,
                                   originalMaxReconnect |-> r.maxReconnectAttempts,
                                   originalDisconnect |-> r.socket.handler],
                      !.socket.handler = DeleteHandler(k),
                      !.socket.rpc = k]

\* a deleteUserData that does not suppress reconnection
deleteUserData_NoSuppression(r) ==
    IF r.socket.state = "null" THEN DeleteResult(r, "failure", ErrNoSocket)
    ELSE IF r.dels # [k \in DelIds |-> NoDelete]
    THEN DeleteResult(r, "failure", ErrInProgress)
    ELSE LET k == CHOOSE k \in FreeDels(r) : \A u \in FreeDels(r) : k <= u
         IN [r EXCEPT !.dels[k] = [pc |-> "race", socketDisconnected |-> FALSE,
                                   originalMaxReconnect |-> r.maxReconnectAttempts,
                                   originalDisconnect |-> r.socket.handler],
                      !.socket.handler = DeleteHandler(k),
                      !.socket.rpc = k]

\* deleteUserData up to `await Promise.race(...)`
deleteUserData(r) ==
    IF r.socket.state = "null" THEN DeleteResult(r, "failure", ErrNoSocket)
    ELSE IF r.isLoggingOut THEN DeleteResult(r, "failure", ErrInProgress)
    ELSE LET k == CHOOSE k \in FreeDels(r) : \A u \in FreeDels(r) : k <= u
         IN [r EXCEPT !.isLoggingOut = TRUE,
                      !.maxReconnectAttempts = 0,
                      !.dels[k] = [pc |-> "race", socketDisconnected |-> FALSE,
                                   originalMaxReconnect |-> r.maxReconnectAttempts,
                                   originalDisconnect |-> r.socket.handler],
                      !.socket.handler = DeleteHandler(k),
                      !.socket.rpc = k]

\* the outer catch block
deleteOuterCatch(r, k) ==
    DeleteReturn(DeleteResult(RestoreAndClear(r, k), "failure", ErrException), k)

\* an inner catch that does not look at socketDisconnected
deleteInnerCatch_IgnoresDisconnect(r, k, timeoutMessage) ==
    LET r1 == IF r.socket.state # "null"
              THEN [r EXCEPT !.socket.handler = r.dels[k].originalDisconnect]
              ELSE r
    IN IF timeoutMessage
       THEN DeleteReturn(DeleteResult(RestoreAndClear(r1, k), "timeout", ErrTimedOut), k)
       ELSE deleteOuterCatch(r1, k)

\* an inner catch that rethrows the timeout like any other error
deleteInnerCatch_RethrowsTimeout(r, k, timeoutMessage) ==
    LET r1 == IF r.socket.state # "null"
              THEN [r EXCEPT !.socket.handler = r.dels[k].originalDisconnect]
              ELSE r
    IN IF r1.dels[k].socketDisconnected
       THEN DeleteReturn(DeleteResult(RestoreAndClear(disconnect(r1), k), "success", ""), k)
       ELSE deleteOuterCatch(r1, k)

\* the inner catch block; timeoutMessage: error.message includes 'timeout'
deleteInnerCatch(r, k, timeoutMessage) ==
    LET r1 == IF r.socket.state # "null"
              THEN [r EXCEPT !.socket.handler = r.dels[k].originalDisconnect]
              ELSE r
    IN IF r1.dels[k].socketDisconnected
       THEN DeleteReturn(DeleteResult(RestoreAndClear(disconnect(r1), k), "success", ""), k)
       ELSE IF timeoutMessage
       THEN DeleteReturn(DeleteResult(RestoreAndClear(r1, k), "timeout", ErrTimedOut), k)
       ELSE deleteOuterCatch(r1, k)

\* after the race was won by the response of the service
deleteResponded(r, k, payload) ==
    IF r.socket.state = "null"
    THEN deleteInnerCatch(r, k, FALSE)   \* TypeError on this.socket.ondisconnect
    ELSE LET r1 == [r EXCEPT !.socket.handler = r.dels[k].originalDisconnect]
         IN CASE payload = "failure" ->
                   DeleteReturn(DeleteResult(RestoreAndClear(r1, k), "failure", ErrServer), k)
              [] payload \in {"success", "empty"} ->
                   DeleteReturn(DeleteResult(RestoreAndClear(disconnect(r1), k), "success", ""), k)
              [] OTHER -> deleteInnerCatch(r1, k, FALSE)   \* JSON.parse throws

\* --------------------------------------------------------------- identity
Nicknames == 1..MaxNames

Responses == {"ok", "conflict", "rejected"}

getOrCreateDeviceId(r) == [r EXCEPT !.deviceId = TRUE]

\* a continuation that reports every rejection with the generic message
authenticated_GenericError(r, nickname, response) ==
    IF response = "ok"
    THEN Return([r EXCEPT !.session = TRUE, !.username = nickname],
                "authenticate", "true")
    ELSE Return(onError(r, ErrAuth), "authenticate", "false")

\* a continuation that persists the name before it looks at the outcome
authenticated_PersistsFirst(r, nickname, response) ==
    LET r1 == [r EXCEPT !.username = nickname]
    IN IF response = "ok"
       THEN Return([r1 EXCEPT !.session = TRUE], "authenticate", "true")
       ELSE Return(onError(r1, IF response = "conflict" THEN ErrNameTaken
                                ELSE ErrAuth),
                   "authenticate", "false")

\* the continuation of authenticate: the Session is assigned and the name
\* persisted when authenticateDevice resolved, the catch block runs otherwise
authenticated(r, nickname, response) ==
    IF response = "ok"
    THEN Return([r EXCEPT !.session = TRUE, !.username = nickname],
                "authenticate", "true")
    ELSE Return(onError(r, IF response = "conflict" THEN ErrNameTaken ELSE ErrAuth),
                "authenticate", "false")

hasStoredIdentity(r) == r.deviceId

getStoredUsername(r) == r.username

\* a logout that leaves the display name in localStorage
logout_KeepsUsername(r) ==
    LET r1 == disconnect([r EXCEPT !.isLoggingOut = FALSE])
    IN [r1 EXCEPT !.deviceId = FALSE]

logout(r) ==
    LET r1 == disconnect([r EXCEPT !.isLoggingOut = FALSE])
    IN [r1 EXCEPT !.deviceId = FALSE, !.username = 0]

\* ------------------------------------------------------ match operations
\* A request goes out when the socket is open; on a socket that is not open
\* the library rejects it at once and the catch block of the method runs.
MatchIds == 1..MaxMatches

Req(op, id) == [op |-> op, id |-> id]

Send(r, q) ==
    Emit([r EXCEPT !.socket.reqs = @ \cup {q}], Ev("send", q.op, ToString(q.id)))

\* the request q on the socket ref was answered or gave up
Answered(r, ref, q) == Put(r, ref, [ref.x EXCEPT !.reqs = @ \ {q}])

\* the catch block of findMatch
findMatchCatch(r) == Return(onError(r, ErrFind), "findMatch", "false")

\* findMatch(mode) up to `await this.socket.rpc("find_match", ...)`
findMatch(r) ==
    IF r.socket.state = "null" THEN Return(r, "findMatch", "false")
    ELSE IF r.socket.state # "open" THEN findMatchCatch(r)
    ELSE Send(r, Req("find", 0))

\* findMatch after the rpc resolved; id = 0: the payload does not parse
findMatchFound(r, id) ==
    IF id = 0 \/ r.socket.state # "open" THEN findMatchCatch(r)
    ELSE Send(r, Req("fjoin", id))

findMatchJoined_KeepsHandle(r, id) ==
    Return(Emit(r, Ev("matchJoined", "", "")), "findMatch", "true")

\* findMatch after socket.joinMatch resolved with the match
findMatchJoined(r, id) ==
    Return(Emit([r EXCEPT !.matchId = id], Ev("matchJoined", "", "")),
           "findMatch", "true")

\* the catch block of joinMatch
joinMatchCatch(r) == Return(onError(r, ErrJoin), "joinMatch", "false")

\* joinMatch(matchId) up to `await this.socket.joinMatch(matchId)`
joinMatch(r, id) ==
    IF r.socket.state = "null" THEN Return(r, "joinMatch", "false")
    ELSE IF r.socket.state # "open" THEN joinMatchCatch(r)
    ELSE Send(r, Req("join", id))

\* joinMatch after socket.joinMatch resolved with the match
joinMatchJoined(r, id) ==
    Return(Emit([r EXCEPT !.matchId = id], Ev("matchJoined", "", "")),
           "joinMatch", "true")

leaveMatch_ForgetsMatch(r, method) ==
    IF r.socket.state = "null" \/ r.matchId = 0 THEN Return(r, method, "void")
    ELSE IF r.socket.state # "open"
    THEN Return([r EXCEPT !.matchId = 0], method, "void")
    ELSE Send(r, Req(method, r.matchId))

\* leaveMatch() and cancelMatch(), the same code under two names, up to
\* `await this.socket.leaveMatch(this.matchId)`; the catch block only logs
leaveMatch(r, method) ==
    IF r.socket.state = "null" \/ r.matchId = 0 THEN Return(r, method, "void")
    ELSE IF r.socket.state # "open" THEN Return(r, method, "void")
    ELSE Send(r, Req(method, r.matchId))

\* leaveMatch / cancelMatch after socket.leaveMatch resolved
leaveMatchLeft(r, method) == Return([r EXCEPT !.matchId = 0], method, "void")

\* sendMove(position): sendMatchState resolves as soon as the frame is out
sendMove(r) ==
    IF r.socket.state = "null" \/ r.matchId = 0 THEN Return(r, "sendMove", "void")
    ELSE IF r.socket.state # "open"
    THEN Return(onError(r, ErrMove), "sendMove", "void")
    ELSE Return(Emit(r, Ev("send", "move", ToString(r.matchId))), "sendMove", "void")

\* getLeaderboard() with the answer of the service: the list, a payload that
\* does not parse, or a rejection
getLeaderboard(r, response) ==
    IF r.socket.state = "null" THEN Return(r, "getLeaderboard", "[]")
    ELSE IF r.socket.state # "open" THEN Return(r, "getLeaderboard", "[]")
    ELSE Return(Emit(r, Ev("send", "get_leaderboard", "")), "getLeaderboard",
                IF response = "list" THEN "leaderboard" ELSE "[]")

\* the continuation of the method that awaits q, when q is answered
Resolved(r, q, id) ==
    CASE q.op = "find" -> findMatchFound(r, id)
      [] q.op = "fjoin" -> findMatchJoined(r, q.id)
      [] q.op = "join" -> joinMatchJoined(r, q.id)
      [] q.op \in {"leaveMatch", "cancelMatch"} -> leaveMatchLeft(r, q.op)

\* the catch block of the method that awaits q, when q is rejected
Rejected(r, q) ==
    CASE q.op \in {"find", "fjoin"} -> findMatchCatch(r)
      [] q.op = "join" -> joinMatchCatch(r)
      [] q.op \in {"leaveMatch", "cancelMatch"} -> Return(r, q.op, "void")

\* ------------------------------------------------------- inbound envelopes
\* The data of an envelope is a sequence of tokens standing for its bytes;
\* a game state is sent as the JSON object of its status.
Snapshots == {"waiting", "active", "completed"}

Senders == {"u1", "u2"}

Tokens == {"{", "}", "null"} \cup Snapshots

\* the token sequences an envelope can carry
Datas == {<< >>} \cup {<<a>> : a \in Tokens}
         \cup {<<a, b>> : a \in {"{"}, b \in Tokens}
         \cup {<<a, b, c>> : a \in {"{", "}"}, b \in Snapshots, c \in {"{", "}"}}

OpCodes == 0..MaxOpCode

Envelopes == [op_code : OpCodes, data : Datas, sender : Senders]

\* JSON.parse(new TextDecoder().decode(data)): the value, or it throws
JsonParse(data) ==
    IF Len(data) = 3 /\ data[1] = "{" /\ data[3] = "}" /\ data[2] \in Snapshots
    THEN [threw |-> FALSE, value |-> data[2]]
    ELSE IF data = <<"null">>
    THEN [threw |-> FALSE, value |-> "null"]
    ELSE [threw |-> TRUE, value |-> ""]

\* a handler whose default case reports the unknown code to the user
handleMatchData_DefaultReports(r, matchData) ==
    IF matchData.op_code = STATE_UPDATE
    THEN LET gameState == JsonParse(matchData.data)
         IN IF gameState.threw THEN r
            ELSE Emit(r, Ev("onMatchStateUpdate", gameState.value, ""))
    ELSE onError(r, "Unknown message from server")

\* a handler that raises the event before it has decoded the payload
handleMatchData_RaisesUndecoded(r, matchData) ==
    IF matchData.op_code = STATE_UPDATE
    THEN Emit(r, Ev("onMatchStateUpdate", JsonParse(matchData.data).value, ""))
    ELSE r

\* handleMatchData: the switch on op_code inside try/catch; the default
\* case and the catch block only write to the log
handleMatchData(r, matchData) ==
    IF matchData.op_code = STATE_UPDATE
    THEN LET gameState == JsonParse(matchData.data)
         IN IF gameState.threw THEN r
            ELSE Emit(r, Ev("onMatchStateUpdate", gameState.value, ""))
    ELSE r

\* ------------------------------------------- the steps and their outcomes
\* Each step is one run of code; its outcome is the state it leaves, with
\* the callbacks it raised in out.

\* authenticate(nickname) up to `await this.client.authenticateDevice(...)`
AuthenticateCallOut == getOrCreateDeviceId([St EXCEPT !.authCalled = TRUE])

\* authenticate(nickname) after the await; response: what the service said
AuthenticateOut(nickname, response) == authenticated(St, nickname, response)

\* connectSocket() called by the application
ConnectSocketOut == connectSocket(St, FALSE)

\* the socket opens: socket.connect resolves
SocketOpenOut(ref) ==
    LET y == [ref.x EXCEPT !.state = "open"]
    IN IF y.conn = "awaitConnect" THEN connectResolved(St, ref, y)
       ELSE Put(St, ref, y)

\* the 100 ms grace delay of connectSocket elapses
GraceElapsedOut(ref) == connectReady(St, ref)

\* the socket fails to open: socket.connect rejects; its close event is due
SocketErrorOut(ref) ==
    LET y == [ref.x EXCEPT !.state = "closing"]
    IN IF y.conn = "awaitConnect" THEN connectFailed(St, ref, y)
       ELSE Put(St, ref, y)

\* the close event of a socket: the channel dropped, or a close completes
SocketCloseOut(ref) ==
    FireDisconnect(Put(St, ref, [ref.x EXCEPT !.state = "closed", !.joined = {}]),
                   ref.x.handler)

\* a reconnect timer fires
TimerFireOut(t) == connectSocket([St EXCEPT !.timers = @ \ {t}], TRUE)

DisconnectOut == disconnect(St)

LogoutOut == logout(St)

DeleteUserDataOut == deleteUserData(St)

\* the ways an invocation of deleteUserData past its guard ends
DeleteResponseOut(k, payload) == deleteResponded(St, k, payload)
DeleteTimeoutOut(k) == deleteInnerCatch(St, k, TRUE)
DeleteRpcErrorOut(k, timeoutMessage) == deleteInnerCatch(St, k, timeoutMessage)

\* an envelope arrives on a socket whose onmatchdata is bound
MatchDataOut(matchData) == handleMatchData(St, matchData)

FindMatchOut == findMatch(St)
JoinMatchOut(id) == joinMatch(St, id)
LeaveMatchOut == leaveMatch(St, "leaveMatch")
CancelMatchOut == leaveMatch(St, "cancelMatch")
SendMoveOut == sendMove(St)
GetLeaderboardOut(response) == getLeaderboard(St, response)

\* the service carries out the request q sent on the socket ref and answers
\* it: a join adds the presence of the socket to the match, a leave removes it
Served(r, ref, q) ==
    Put(r, ref, [ref.x EXCEPT
        !.reqs = @ \ {q},
        !.joined = CASE q.op \in {"join", "fjoin"} -> @ \cup {q.id}
                     [] q.op \in {"leaveMatch", "cancelMatch"} -> @ \ {q.id}
                     [] OTHER -> @])

RequestResolvedOut(ref, q, id) == Resolved(Served(St, ref, q), q, id)

\* the request q is rejected: an error of the service or the send timeout
RequestRejectedOut(ref, q) == Rejected(Answered(St, ref, q), q)

MatchJoinedOut ==
    Emit([St EXCEPT !.matchId = 1, !.socket.joined = {1}], Ev("matchJoined", "", ""))

MatchLeftOut == [St EXCEPT !.matchId = 0, !.socket.joined = {}]

Racing == {k \in DelIds : dels[k].pc = "race"}

Opening == {ref \in Refs(St) : ref.x.state = "connecting"}
Gracing == {ref \in Refs(St) : ref.x.conn = "awaitGrace"}
Closing == {ref \in Refs(St) : ref.x.state \in {"open", "closing"}}

\* the service can answer invocation k: its request went out on an open socket
Answerable(k) == \E ref \in Refs(St) : ref.x.rpc = k /\ ref.x.state = "open"

Payloads == {"success", "failure", "empty", "malformed"}
\* ------------------------------------------------------ VoiceChatService
\* The fields of the singleton, each TRUE when it holds an object, and the
\* objects the service created and no longer refers to while they are still
\* running: microphone streams with live tracks, open peer connections, open
\* audio contexts, interval timers that were never cleared.
\* enabled:  track.enabled of the tracks of localStream
\* micPending, offerPending: init() calls suspended at getUserMedia and at
\*           createOffer
\* signalingState, connectionState: peerConnection.signalingState and
\*           peerConnection.connectionState
\* handling: the calls of handleOffer suspended at setRemoteDescription, at
\*           createAnswer and at setLocalDescription, of handleAnswer at
\*           setRemoteDescription and of handleIceCandidate at addIceCandidate
\* toggleReturned: what the last toggleMute() returned
\* reportedLocal, reportedRemote: the value last passed to the registered
\*           voice-activity callback for each stream
NoVoice ==
    [peerConnection |-> FALSE, localStream |-> FALSE, remoteStream |-> FALSE,
     sendSignalCallback |-> FALSE, isInitiator |-> FALSE, isMuted |-> FALSE,
     currentUserId |-> FALSE, remoteAudio |-> FALSE, audioContext |-> FALSE,
     localAnalyser |-> FALSE, remoteAnalyser |-> FALSE,
     voiceActivityCallback |-> FALSE, vadInterval |-> FALSE,
     isLocalSpeaking |-> FALSE, isRemoteSpeaking |-> FALSE,
     enabled |-> TRUE,
     strayStreams |-> 0, strayPeers |-> 0, strayContexts |-> 0,
     strayIntervals |-> 0,
     micPending |-> 0, offerPending |-> 0,
     signalingState |-> "stable", connectionState |-> "new",
     handling |-> [offerRemote |-> 0, offerAnswer |-> 0, offerLocal |-> 0,
                   answer |-> 0, ice |-> 0],
     toggleReturned |-> "none",
     reportedLocal |-> "none", reportedRemote |-> "none", out |-> << >>]

\* the callback was invoked with these values of isSpeaking and isLocal
Reported(v, speaking, local) ==
    \E i \in 1..Len(v.out) : v.out[i] = Ev("voiceActivity", speaking, local)

\* the value last passed to the registered callback for a stream, after a
\* run of code that started with the value `last`
LastReported(v, last, local) ==
    IF ~v.voiceActivityCallback THEN "none"
    ELSE IF Reported(v, "true", local) THEN "true"
    ELSE IF Reported(v, "false", local) THEN "false"
    ELSE last

BecomeVoice(v) ==
    /\ voice' = [v EXCEPT !.reportedLocal = LastReported(v, @, "true"),
                          !.reportedRemote = LastReported(v, @, "false"),
                          !.out = << >>]
    /\ UNCHANGED serviceVars

Bool(b) == IF b THEN "true" ELSE "false"

\* an object held in a field is overwritten without being released
Stray(n, held) == IF held THEN n + 1 ELSE n

\* cleanup()
cleanup(v) ==
    [v EXCEPT !.vadInterval = FALSE,
              !.audioContext = FALSE,
              !.localStream = FALSE,
              !.enabled = TRUE,
              !.remoteAudio = FALSE,
              !.peerConnection = FALSE,
              !.signalingState = "stable",
              !.connectionState = "new",
              !.remoteStream = FALSE,
              !.sendSignalCallback = FALSE,
              !.isInitiator = FALSE,
              !.isMuted = FALSE,
              !.currentUserId = FALSE,
              !.localAnalyser = FALSE,
              !.remoteAnalyser = FALSE,
              !.voiceActivityCallback = FALSE,
              !.isLocalSpeaking = FALSE,
              !.isRemoteSpeaking = FALSE]

\* init(userId, isInitiator, sendCallback) up to `await getUserMedia(...)`
init(v, isInitiator) ==
    [v EXCEPT !.currentUserId = TRUE,
              !.isInitiator = isInitiator,
              !.sendSignalCallback = TRUE,
              !.micPending = @ + 1]

\* createPeerConnection()
createPeerConnection(v) ==
    [v EXCEPT !.strayPeers = Stray(@, v.peerConnection),
              !.peerConnection = TRUE,
              !.signalingState = "stable",
              !.connectionState = "new"]

\* peerConnection.onconnectionstatechange, the connection having moved to
\* `state`: the handler logs
ConnectionStates == {"new", "connected", "disconnected", "failed"}

onconnectionstatechange(v, state) == [v EXCEPT !.connectionState = state]

\* isConnected()
isConnected(v) == v.peerConnection /\ v.connectionState = "connected"

\* createOffer() up to `await this.peerConnection.createOffer()`; without
\* the send callback it returns at once, and so does init, with true
createOffer(v) ==
    IF ~v.peerConnection \/ ~v.sendSignalCallback
    THEN Return(v, "init", "true")
    ELSE [v EXCEPT !.offerPending = @ + 1]

\* init after the microphone was granted: the stream is stored, the peer
\* connection created, the tracks added and, for the initiator, the offer
\* started
micGranted(v) ==
    LET v1 == [v EXCEPT !.micPending = @ - 1,
                        !.strayStreams = Stray(@, v.localStream),
                        !.localStream = TRUE,
                        !.enabled = TRUE]
        v2 == createPeerConnection(v1)
    IN IF v2.isInitiator THEN createOffer(v2) ELSE Return(v2, "init", "true")

\* init after the microphone was refused: getMicrophoneAccess throws, the
\* catch block of init cleans up and returns false
micDenied(v) ==
    Return(cleanup([v EXCEPT !.micPending = @ - 1]), "init", "false")

\* init after the microphone was granted and `new RTCPeerConnection(...)`
\* threw: the stream is stored, the catch block of init cleans up
peerFailed(v) ==
    LET v1 == [v EXCEPT !.micPending = @ - 1,
                        !.strayStreams = Stray(@, v.localStream),
                        !.localStream = TRUE,
                        !.enabled = TRUE]
    IN Return(cleanup(v1), "init", "false")

\* init after the microphone was granted and addTrack threw: the stream is
\* stored and the peer connection created, the catch block of init cleans up
trackFailed(v) ==
    LET v1 == [v EXCEPT !.micPending = @ - 1,
                        !.strayStreams = Stray(@, v.localStream),
                        !.localStream = TRUE,
                        !.enabled = TRUE]
    IN Return(cleanup(createPeerConnection(v1)), "init", "false")

\* createOffer after createOffer or setLocalDescription rejected: the catch
\* block of createOffer logs, and init goes on to return true
offerFailed(v) == Return([v EXCEPT !.offerPending = @ - 1], "init", "true")

\* createOffer after the offer was made: it is set as the local description
\* and sent; a peer connection or callback that is gone by now raises inside
\* the try block and is logged; init returns true either way
offerCreated(v) ==
    LET v1 == [v EXCEPT !.offerPending = @ - 1]
    IN Return(IF v1.peerConnection /\ v1.sendSignalCallback
              THEN Emit([v1 EXCEPT !.signalingState = "have-local-offer"],
                        Ev("signal", "offer", ""))
              ELSE v1,
              "init", "true")

\* a call of a signaling handler suspends at, or resumes from, an await
Suspend(v, at) == [v EXCEPT !.handling[at] = @ + 1]
Resume(v, at) == [v EXCEPT !.handling[at] = @ - 1]

\* handleOffer(data) up to `await this.peerConnection.setRemoteDescription`
handleOffer(v) ==
    IF ~v.peerConnection \/ ~v.sendSignalCallback
    THEN Return(v, "handleOffer", "void")
    ELSE Suspend(v, "offerRemote")

\* handleOffer after the remote offer was applied: createAnswer is called on
\* this.peerConnection; with none the catch block logs
offerApplied(v) ==
    LET v1 == Resume(v, "offerRemote")
    IN IF ~v1.peerConnection THEN Return(v1, "handleOffer", "void")
       ELSE Suspend([v1 EXCEPT !.signalingState = "have-remote-offer"],
                    "offerAnswer")

\* handleOffer after createAnswer resolved: setLocalDescription is called on
\* this.peerConnection; with none the catch block logs
answerCreated(v) ==
    LET v1 == Resume(v, "offerAnswer")
    IN IF ~v1.peerConnection THEN Return(v1, "handleOffer", "void")
       ELSE Suspend(v1, "offerLocal")

\* handleOffer after the answer was set as the local description: it is sent
\* through this.sendSignalCallback; with none the catch block logs
answerSet(v) ==
    LET v1 == Resume(v, "offerLocal")
        v2 == IF v1.peerConnection
              THEN [v1 EXCEPT !.signalingState = "stable"] ELSE v1
    IN Return(IF v2.sendSignalCallback
              THEN Emit(v2, Ev("signal", "answer", ""))
              ELSE v2,
              "handleOffer", "void")

\* handleAnswer(data) up to `await this.peerConnection.setRemoteDescription`
handleAnswer(v) ==
    IF ~v.peerConnection THEN Return(v, "handleAnswer", "void")
    ELSE Suspend(v, "answer")

\* handleAnswer after the remote answer was applied
answerApplied(v) ==
    LET v1 == Resume(v, "answer")
    IN Return(IF v1.peerConnection
              THEN [v1 EXCEPT !.signalingState = "stable"] ELSE v1,
              "handleAnswer", "void")

handleIceCandidate_Buffers(v) == Suspend(v, "ice")

\* handleIceCandidate(data) up to `await this.peerConnection.addIceCandidate`
handleIceCandidate(v) ==
    IF ~v.peerConnection THEN Return(v, "handleIceCandidate", "void")
    ELSE Suspend(v, "ice")

\* handleIceCandidate after the candidate was added
candidateAdded(v) == Return(Resume(v, "ice"), "handleIceCandidate", "void")

\* the method whose call is suspended at an await
HandlerOf(at) ==
    CASE at \in {"offerRemote", "offerAnswer", "offerLocal"} -> "handleOffer"
      [] at = "answer" -> "handleAnswer"
      [] at = "ice" -> "handleIceCandidate"

handlerFailed_CleansUp(v, at) ==
    Return(cleanup(Resume(v, at)), HandlerOf(at), "void")

\* the awaited call of a handler rejected: its catch block logs
handlerFailed(v, at) == Return(Resume(v, at), HandlerOf(at), "void")

\* startVoiceActivityMonitoring(): setInterval overwrites this.vadInterval
startVoiceActivityMonitoring(v) ==
    IF ~v.localAnalyser /\ ~v.remoteAnalyser THEN v
    ELSE [v EXCEPT !.strayIntervals = Stray(@, v.vadInterval),
                   !.vadInterval = TRUE]

\* setupVoiceActivityDetection(): a new AudioContext and an analyser for
\* each stream that is held
setupVoiceActivityDetection(v) ==
    startVoiceActivityMonitoring(
        [v EXCEPT !.strayContexts = Stray(@, v.audioContext),
                  !.audioContext = TRUE,
                  !.localAnalyser = @ \/ v.localStream,
                  !.remoteAnalyser = @ \/ v.remoteStream])

\* playRemoteAudio()
playRemoteAudio(v) ==
    IF ~v.remoteStream THEN v
    ELSE setupVoiceActivityDetection([v EXCEPT !.remoteAudio = TRUE])

\* peerConnection.ontrack
ontrack(v) == playRemoteAudio([v EXCEPT !.remoteStream = TRUE])

vadTick_EverySample(v, localLoud, remoteLoud) ==
    LET v1 == IF v.localAnalyser /\ ~v.isMuted
              THEN LET w == [v EXCEPT !.isLocalSpeaking = localLoud]
                   IN IF w.voiceActivityCallback
                      THEN Emit(w, Ev("voiceActivity", Bool(localLoud), "true"))
                      ELSE w
              ELSE v
    IN IF v1.remoteAnalyser /\ remoteLoud # v1.isRemoteSpeaking
       THEN LET w == [v1 EXCEPT !.isRemoteSpeaking = remoteLoud]
            IN IF w.voiceActivityCallback
               THEN Emit(w, Ev("voiceActivity", Bool(remoteLoud), "false"))
               ELSE w
       ELSE v1

vadTick_IgnoresMute(v, localLoud, remoteLoud) ==
    LET v1 == IF v.localAnalyser /\ localLoud # v.isLocalSpeaking
              THEN LET w == [v EXCEPT !.isLocalSpeaking = localLoud]
                   IN IF w.voiceActivityCallback
                      THEN Emit(w, Ev("voiceActivity", Bool(localLoud), "true"))
                      ELSE w
              ELSE v
    IN IF v1.remoteAnalyser /\ remoteLoud # v1.isRemoteSpeaking
       THEN LET w == [v1 EXCEPT !.isRemoteSpeaking = remoteLoud]
            IN IF w.voiceActivityCallback
               THEN Emit(w, Ev("voiceActivity", Bool(remoteLoud), "false"))
               ELSE w
       ELSE v1

\* the callback of setInterval, with what getAudioLevel(...) > 0.02 gives
\* for the two analysers
vadTick(v, localLoud, remoteLoud) ==
    LET v1 == IF v.localAnalyser /\ ~v.isMuted /\ localLoud # v.isLocalSpeaking
              THEN LET w == [v EXCEPT !.isLocalSpeaking = localLoud]
                   IN IF w.voiceActivityCallback
                      THEN Emit(w, Ev("voiceActivity", Bool(localLoud), "true"))
                      ELSE w
              ELSE v
    IN IF v1.remoteAnalyser /\ remoteLoud # v1.isRemoteSpeaking
       THEN LET w == [v1 EXCEPT !.isRemoteSpeaking = remoteLoud]
            IN IF w.voiceActivityCallback
               THEN Emit(w, Ev("voiceActivity", Bool(remoteLoud), "false"))
               ELSE w
       ELSE v1

\* setVoiceActivityCallback(callback)
setVoiceActivityCallback(v) == [v EXCEPT !.voiceActivityCallback = TRUE]

toggleMute_KeepsTracks(v) ==
    IF ~v.localStream THEN Return(v, "toggleMute", "false")
    ELSE LET w == [v EXCEPT !.isMuted = ~@]
         IN Return(w, "toggleMute", Bool(w.isMuted))

\* toggleMute()
toggleMute(v) ==
    IF ~v.localStream THEN Return(v, "toggleMute", "false")
    ELSE LET w == [v EXCEPT !.isMuted = ~@, !.enabled = v.isMuted]
         IN Return(w, "toggleMute", Bool(w.isMuted))

InitOut(isInitiator) == init(voice, isInitiator)
MicGrantedOut == micGranted(voice)
MicDeniedOut == micDenied(voice)
OfferCreatedOut == offerCreated(voice)
PeerFailedOut == peerFailed(voice)
TrackFailedOut == trackFailed(voice)
OfferFailedOut == offerFailed(voice)
ConnectionStateChangeOut(state) == onconnectionstatechange(voice, state)
HandleOfferOut == handleOffer(voice)
OfferAppliedOut == offerApplied(voice)
AnswerCreatedOut == answerCreated(voice)
AnswerSetOut == answerSet(voice)
HandleAnswerOut == handleAnswer(voice)
AnswerAppliedOut == answerApplied(voice)
HandleIceCandidateOut == handleIceCandidate(voice)
CandidateAddedOut == candidateAdded(voice)
HandlerFailedOut(at) == handlerFailed(voice, at)
RemoteTrackOut == ontrack(voice)
VadTickOut(localLoud, remoteLoud) == vadTick(voice, localLoud, remoteLoud)
SetVoiceActivityCallbackOut == setVoiceActivityCallback(voice)
CleanupOut == cleanup(voice)

\* toggleMute() with the record of what it returned
ToggleMuteOut ==
    LET o == toggleMute(voice)
    IN [o EXCEPT !.toggleReturned = IF o.isMuted /\ voice.localStream
                                    THEN "muted" ELSE "unmuted"]

\* the stray objects stay within the bound
Within(v) ==
    /\ v.strayStreams <= MaxStray /\ v.strayPeers <= MaxStray
    /\ v.strayContexts <= MaxStray /\ v.strayIntervals <= MaxStray

\* --------------------------------------------------------------- actions
Init ==
    /\ session = FALSE
    /\ socket = Null
    /\ matchId = 0
    /\ connectionStatus = "disconnected"
    /\ reconnectAttempts = 0
    /\ maxReconnectAttempts = InitialMaxReconnectAttempts
    /\ isLoggingOut = FALSE
    /\ timers = {}
    /\ leaked = {}
    /\ dels = [k \in DelIds |-> NoDelete]
    /\ fatalRaised = FALSE
    /\ deviceId = FALSE
    /\ username = 0
    /\ authCalled = FALSE
    /\ voice = NoVoice

AuthenticateCall == Become(AuthenticateCallOut)

Authenticate ==
    /\ authCalled
    /\ \E nickname \in Nicknames, response \in Responses :
          Become(AuthenticateOut(nickname, response))

ConnectSocket ==
    /\ session => RoomFor(St, MaxSockets)
    /\ Become(ConnectSocketOut)

SocketOpen == \E ref \in Opening : Become(SocketOpenOut(ref))

GraceElapsed == \E ref \in Gracing : Become(GraceElapsedOut(ref))

SocketError == \E ref \in Opening : Become(SocketErrorOut(ref))

SocketClose == \E ref \in Closing : Become(SocketCloseOut(ref))

TimerFire ==
    \E t \in timers :
        /\ session => RoomFor(St, MaxSockets)
        /\ Become(TimerFireOut(t))

\* disconnect(), the cleanup of the App; the App is not torn down while its
\* confirmLogout awaits deleteUserData
Disconnect ==
    /\ Racing = {}
    /\ Become(DisconnectOut)

\* logout(): confirmLogout calls it once the awaited deleteUserData succeeded
Logout ==
    /\ Racing = {}
    /\ Become(LogoutOut)

\* joinMatch / findMatch after socket.joinMatch resolved with a match
MatchJoined ==
    /\ socket.state = "open"
    /\ matchId = 0
    /\ Become(MatchJoinedOut)

\* leaveMatch / cancelMatch after socket.leaveMatch resolved
MatchLeft ==
    /\ socket.state = "open"
    /\ matchId # 0
    /\ Become(MatchLeftOut)

\* the sockets that deliver envelopes to handleMatchData
Receiving == {ref \in Refs(St) : ref.x.state = "open" /\ ref.x.onmatchdata}

\* one more request can go out within the bound
RoomForRequest(r) ==
    r.socket.state = "open" =>
        Cardinality(UNION {x.reqs : x \in {r.socket} \cup r.leaked}) < MaxRequests

FindMatch == RoomForRequest(St) /\ Become(FindMatchOut)

JoinMatch == RoomForRequest(St) /\ \E id \in MatchIds : Become(JoinMatchOut(id))

LeaveMatch == RoomForRequest(St) /\ Become(LeaveMatchOut)

CancelMatch == RoomForRequest(St) /\ Become(CancelMatchOut)

SendMove == Become(SendMoveOut)

GetLeaderboard ==
    \E response \in {"list", "malformed", "rejected"} :
        Become(GetLeaderboardOut(response))

\* the requests in flight, each with its socket
InFlight == {[ref |-> ref, q |-> q] : ref \in Refs(St), q \in
                UNION {x.reqs : x \in {socket} \cup leaked}}

RequestResolved ==
    \E p \in InFlight, id \in {0} \cup MatchIds :
        /\ p.q \in p.ref.x.reqs /\ p.ref.x.state = "open"
        /\ p.q.op = "find" \/ id = p.q.id
        /\ LET r == Answered(St, p.ref, p.q)
           IN p.q.op = "find" => RoomForRequest(r)
        /\ Become(RequestResolvedOut(p.ref, p.q, id))

RequestRejected ==
    \E p \in InFlight :
        /\ p.q \in p.ref.x.reqs
        /\ Become(RequestRejectedOut(p.ref, p.q))

MatchData ==
    /\ Receiving # {}
    /\ \E matchData \in Envelopes : Become(MatchDataOut(matchData))

\* deleteUserData() called by the application
DeleteUserData ==
    /\ (socket.state # "null" /\ ~isLoggingOut) => FreeDels(St) # {}
    /\ Become(DeleteUserDataOut)

\* the delete_user_data response arrives before the timeout
DeleteResponse ==
    \E k \in Racing, payload \in Payloads :
        /\ Answerable(k)
        /\ Become(DeleteResponseOut(k, payload))

\* the 8 second timer rejects the race
DeleteTimeout == \E k \in Racing : Become(DeleteTimeoutOut(k))

\* the rpc promise rejects before the timeout
DeleteRpcError ==
    \E k \in Racing, timeoutMessage \in BOOLEAN :
        Become(DeleteRpcErrorOut(k, timeoutMessage))

NextReconnect ==
    \/ AuthenticateCall
    \/ Authenticate
    \/ ConnectSocket
    \/ SocketOpen
    \/ GraceElapsed
    \/ SocketError
    \/ SocketClose
    \/ TimerFire
    \/ Disconnect
    \/ Logout

Next ==
    \/ AuthenticateCall
    \/ Authenticate
    \/ ConnectSocket
    \/ SocketOpen
    \/ GraceElapsed
    \/ SocketError
    \/ SocketClose
    \/ TimerFire
    \/ Disconnect
    \/ Logout
    \/ MatchJoined
    \/ MatchLeft
    \/ DeleteUserData
    \/ DeleteResponse
    \/ DeleteTimeout
    \/ DeleteRpcError

\* the session layer with account deletion
Spec == Init /\ [][Next]_vars

\* connection, reconnection and logout alone
SpecReconnect == Init /\ [][NextReconnect]_vars

NextMatch ==
    \/ AuthenticateCall
    \/ Authenticate
    \/ ConnectSocket
    \/ SocketOpen
    \/ GraceElapsed
    \/ SocketError
    \/ SocketClose
    \/ TimerFire
    \/ Disconnect
    \/ Logout
    \/ MatchData

\* connection and reconnection with the traffic of a match
SpecMatch == Init /\ [][NextMatch]_vars


\* the service with the match operations of the application and their answers
NextOps ==
    \/ NextReconnect
    \/ FindMatch
    \/ JoinMatch
    \/ LeaveMatch
    \/ CancelMatch
    \/ SendMove
    \/ GetLeaderboard
    \/ RequestResolved
    \/ RequestRejected

SpecOps == Init /\ [][NextOps]_vars

\* ---------------------------------------------- VoiceChatService: steps
VoiceInit ==
    /\ voice.micPending + voice.offerPending < MaxInits
    /\ \E isInitiator \in BOOLEAN : BecomeVoice(InitOut(isInitiator))

MicGranted ==
    voice.micPending > 0 /\ Within(MicGrantedOut) /\ BecomeVoice(MicGrantedOut)

MicDenied == voice.micPending > 0 /\ BecomeVoice(MicDeniedOut)

\* the peer connection makes an offer and takes it as its local description
\* unless it holds a remote one
OfferCreated ==
    /\ voice.offerPending > 0
    /\ voice.peerConnection => voice.signalingState # "have-remote-offer"
    /\ BecomeVoice(OfferCreatedOut)

PeerFailed ==
    voice.micPending > 0 /\ Within(PeerFailedOut) /\ BecomeVoice(PeerFailedOut)

TrackFailed ==
    voice.micPending > 0 /\ Within(TrackFailedOut) /\ BecomeVoice(TrackFailedOut)

OfferFailed == voice.offerPending > 0 /\ BecomeVoice(OfferFailedOut)

Awaits == {"offerRemote", "offerAnswer", "offerLocal", "answer", "ice"}

RECURSIVE SumOver(_, _)
SumOver(f, S) ==
    IF S = {} THEN 0
    ELSE LET x == CHOOSE y \in S : TRUE IN f[x] + SumOver(f, S \ {x})

\* one more signaling message can be taken up within the bound
RoomForHandler(v) ==
    v.peerConnection => SumOver(v.handling, Awaits) < MaxHandlers

HandleOffer == RoomForHandler(voice) /\ BecomeVoice(HandleOfferOut)

HandleAnswer == RoomForHandler(voice) /\ BecomeVoice(HandleAnswerOut)

HandleIceCandidate == RoomForHandler(voice) /\ BecomeVoice(HandleIceCandidateOut)

\* the peer connection applies a remote offer unless it holds a local one
OfferApplied ==
    /\ voice.handling.offerRemote > 0
    /\ voice.peerConnection => voice.signalingState # "have-local-offer"
    /\ BecomeVoice(OfferAppliedOut)

\* the peer connection makes an answer when it holds a remote offer
AnswerCreated ==
    /\ voice.handling.offerAnswer > 0
    /\ voice.peerConnection => voice.signalingState = "have-remote-offer"
    /\ BecomeVoice(AnswerCreatedOut)

AnswerSet ==
    /\ voice.handling.offerLocal > 0
    /\ voice.peerConnection => voice.signalingState = "have-remote-offer"
    /\ BecomeVoice(AnswerSetOut)

\* the peer connection applies a remote answer when it holds a local offer
AnswerApplied ==
    /\ voice.handling.answer > 0
    /\ voice.peerConnection => voice.signalingState = "have-local-offer"
    /\ BecomeVoice(AnswerAppliedOut)

CandidateAdded == voice.handling.ice > 0 /\ BecomeVoice(CandidateAddedOut)

\* the peer connection rejects what a handler awaits
HandlerFailed ==
    \E at \in Awaits :
        voice.handling[at] > 0 /\ BecomeVoice(HandlerFailedOut(at))

\* the connection of this.peerConnection changes its state
ConnectionStateChange ==
    /\ voice.peerConnection
    /\ \E state \in ConnectionStates \ {"new", voice.connectionState} :
           BecomeVoice(ConnectionStateChangeOut(state))

\* a remote track arrives on an open peer connection
RemoteTrack ==
    /\ voice.peerConnection \/ voice.strayPeers > 0
    /\ Within(RemoteTrackOut)
    /\ BecomeVoice(RemoteTrackOut)

\* an interval timer that was started and not cleared fires
VadTick ==
    /\ voice.vadInterval \/ voice.strayIntervals > 0
    /\ \E localLoud \in BOOLEAN, remoteLoud \in BOOLEAN :
           BecomeVoice(VadTickOut(localLoud, remoteLoud))

SetVoiceActivityCallback == BecomeVoice(SetVoiceActivityCallbackOut)

ToggleMute == BecomeVoice(ToggleMuteOut)

Cleanup == BecomeVoice(CleanupOut)

NextVoice ==
    \/ VoiceInit
    \/ MicGranted
    \/ MicDenied
    \/ OfferCreated
    \/ PeerFailed
    \/ TrackFailed
    \/ OfferFailed
    \/ HandleOffer
    \/ OfferApplied
    \/ AnswerCreated
    \/ AnswerSet
    \/ HandleAnswer
    \/ AnswerApplied
    \/ HandleIceCandidate
    \/ CandidateAdded
    \/ HandlerFailed
    \/ ConnectionStateChange
    \/ RemoteTrack
    \/ VadTick
    \/ SetVoiceActivityCallback
    \/ ToggleMute
    \/ Cleanup

\* the voice service under its callers and the platform's media events
SpecVoice == Init /\ [][NextVoice]_vars

\* ------------------------------------------------------------- properties
HasError(r, msg) == \E i \in 1..Len(r.out) : r.out[i] = Ev("error", msg, "")

\* the outcomes of the steps that end a callback of the reconnect timer
ReconnectEndings ==
    {TimerFireOut(t) : t \in {u \in timers : ~session}}
    \cup {SocketErrorOut(ref) : ref \in {o \in Opening : o.x.byTimer}}
    \cup {GraceElapsedOut(ref) : ref \in {g \in Gracing : g.x.byTimer}}

\* a callback of the reconnect timer has yet to end
ReconnectInFlight ==
    timers # {} \/ \E ref \in Refs(St) : ref.x.byTimer /\ ref.x.conn # "none"

C1_NoEleventhAttempt ==
    /\ reconnectAttempts <= InitialMaxReconnectAttempts
    /\ \A t \in timers : t.attempt <= InitialMaxReconnectAttempts

\* C1: with maxReconnectAttempts = 10, after 10 consecutive failed reconnect
\* attempts no 11th attempt is scheduled and the fatal notification is
\* delivered exactly once: never a second time before a connection succeeds,
\* and it has been delivered once the 10th attempt has failed.
C1_FatalExactlyOnce ==
    /\ C1_NoEleventhAttempt
    /\ \A r \in ReconnectEndings : HasError(r, ErrFatal) => ~fatalRaised
    /\ (/\ maxReconnectAttempts = InitialMaxReconnectAttempts
        /\ reconnectAttempts = InitialMaxReconnectAttempts
        /\ ~ReconnectInFlight) => fatalRaised

\* the timer this.reconnectTimeout refers to after a run of code
Scheduled(r) == reconnectTimeout(r)

\* the outcomes of a disconnect event that reaches the closure of connectSocket
ServiceDrops == {SocketCloseOut(ref) : ref \in {c \in Closing : c.x.handler = ServiceHandler}}

\* C2: after connectSocket ended with status 'connected' the backoff is reset:
\* the next reconnect scheduled by a disconnect event is attempt 1 with the
\* base delay, whatever disconnect events, timers and connectSocket
\* completions came before.
C2_BackoffResets ==
    connectionStatus = "connected" =>
        /\ reconnectAttempts = 0
        /\ \A r \in ServiceDrops :
              r.timers # timers =>
                  Scheduled(r) = {[held |-> TRUE, delay |-> BaseDelay, attempt |-> 1]}

\* a connection was restored by the reconnect timer after the backoff had
\* advanced, and the channel can drop again
C2_Witness ==
    /\ connectionStatus = "connected"
    /\ socket.state = "open" /\ socket.byTimer
    /\ session /\ ~isLoggingOut
    /\ \E r \in ServiceDrops : r.timers # timers

\* the delay of the policy, by doubling from the base up to the cap
RECURSIVE PolicyDelay(_)
PolicyDelay(n) ==
    IF n = 1 THEN BaseDelay ELSE Min(2 * PolicyDelay(n - 1), CapDelay)

\* C3: for every attempt number n from 1 to maxReconnectAttempts the delay
\* used by attemptReconnect is min(1000 * 2^(n-1), 30000) ms, and the delay
\* is non-decreasing in n.
C3_DelayPolicy ==
    \A t \in timers :
        /\ t.attempt \in 1..InitialMaxReconnectAttempts
        /\ t.delay = PolicyDelay(t.attempt)
        /\ \A m \in 1..t.attempt : delay(m) <= t.delay

\* the tenth attempt is scheduled, at the cap
C3_Witness == \E t \in timers : t.attempt = InitialMaxReconnectAttempts /\ t.delay = CapDelay

\* the result a run of deleteUserData resolved with
HasResult(r, outcome, error) ==
    /\ r.out # << >>
    /\ r.out[Len(r.out)] = Ev("deleteResult", outcome, error)

\* C4: a deleteUserData call made while another one is in flight returns at
\* once with success = false and 'Delete already in progress', sends no
\* second request and leaves the guard flag, maxReconnectAttempts and the
\* disconnect handler of the socket as the first call set them.
C4_SecondDeleteRejected ==
    Racing # {} =>
        /\ socket.state # "null"
        /\ isLoggingOut
        /\ DeleteUserDataOut = Emit(St, Ev("deleteResult", "failure", ErrInProgress))

C4_Witness ==
    /\ Racing # {}
    /\ socket.state = "open" /\ socket.rpc \in Racing
    /\ HasResult(DeleteUserDataOut, "failure", ErrInProgress)

\* C5: once the socket that carries the delete request has disconnected
\* during the race, deleteUserData resolves with success = true and the
\* Session, the socket and the MatchHandle are cleared.
C5_DisconnectMeansSuccess ==
    \A k \in Racing :
        /\ \A ref \in Closing :
              ref.x.rpc = k => SocketCloseOut(ref).dels[k].socketDisconnected
        /\ dels[k].socketDisconnected =>
              \A r \in {DeleteTimeoutOut(k), DeleteRpcErrorOut(k, FALSE)} :
                  /\ HasResult(r, "success", "")
                  /\ ~r.session /\ r.socket = Null /\ r.matchId = 0

C5_Witness ==
    \E k \in Racing :
        /\ dels[k].socketDisconnected
        /\ session /\ socket.state # "null" /\ matchId # 0

\* the delete requests in flight and the reconnects scheduled after a run
Requests(r) == {x.rpc : x \in {r.socket} \cup r.leaked} \ {0}

\* C6: a timeout with neither response nor disconnect resolves with
\* success = false and timeout = true and leaves Session and socket in place;
\* a response reporting success = false resolves with success = false and no
\* timeout flag; neither sends the request again nor schedules a reconnect.
C6_TimeoutDistinctFromFailure ==
    \A k \in Racing :
        /\ ~dels[k].socketDisconnected =>
              LET r == DeleteTimeoutOut(k)
              IN /\ HasResult(r, "timeout", ErrTimedOut)
                 /\ r.session = session
                 /\ socket.state # "null" /\ r.socket.state = socket.state
                 /\ Requests(r) = Requests(St) \ {k} /\ r.timers = timers
        /\ Answerable(k) =>
              LET r == DeleteResponseOut(k, "failure")
              IN /\ HasResult(r, "failure", ErrServer)
                 /\ r.session = session /\ r.socket.state = socket.state
                 /\ Requests(r) = Requests(St) \ {k} /\ r.timers = timers

C6_Witness ==
    \E k \in Racing :
        /\ ~dels[k].socketDisconnected /\ Answerable(k)
        /\ session /\ socket.state = "open"

\* C7: from the moment deleteUserData sets its guard flag until it resolves,
\* a socket drop creates no reconnect timer, never changes the status to
\* 'reconnecting' and delivers nothing through onError.
C7_NoReconnectWhileDeleting ==
    Racing # {} =>
        \A ref \in Closing :
            LET r == SocketCloseOut(ref)
            IN /\ r.timers = timers
               /\ \A i \in 1..Len(r.out) :
                     /\ r.out[i].type # "error"
                     /\ r.out[i] # Ev("status", r.out[i].a, "reconnecting")

\* during a deletion a socket drops whose handler is the closure of
\* connectSocket, with a Session present
C7_Witness ==
    /\ Racing # {} /\ session
    /\ \E ref \in Closing : ref.x.handler = ServiceHandler

\* C8: on an unsolicited drop with no logout/deletion in progress, a Session
\* and attempts left, a reconnect is scheduled with the policy delay; the
\* status is 'reconnecting' for the whole wait and becomes 'connecting' when
\* the retry starts.
C8_ReconnectingWhileWaiting ==
    /\ \A ref \in {c \in Closing : c.x.handler = ServiceHandler} :
          (~isLoggingOut /\ session /\ reconnectAttempts < maxReconnectAttempts) =>
              LET r == SocketCloseOut(ref)
                  n == reconnectAttempts + 1
              IN /\ Scheduled(r) = {[held |-> TRUE, delay |-> PolicyDelay(n), attempt |-> n]}
                 /\ r.connectionStatus = "reconnecting"
    /\ timers # {} => connectionStatus = "reconnecting"
    /\ \A t \in timers : session => TimerFireOut(t).connectionStatus = "connecting"

\* the outcomes of every step of connection, reconnection and logout
ReconnectOutcomes ==
    {AuthenticateOut(nickname, response) : nickname \in Nicknames, response \in Responses}
    \cup {AuthenticateCallOut}
    \cup {ConnectSocketOut, DisconnectOut, LogoutOut}
    \cup {SocketOpenOut(ref) : ref \in Opening}
    \cup {SocketErrorOut(ref) : ref \in Opening}
    \cup {GraceElapsedOut(ref) : ref \in Gracing}
    \cup {SocketCloseOut(ref) : ref \in Closing}
    \cup {TimerFireOut(t) : t \in timers}

\* the status changes a run of code reported, in order
StatusChanges(r) ==
    {<<r.out[i].a, r.out[i].b>> : i \in {j \in 1..Len(r.out) : r.out[j].type = "status"}}

CycleTransitions ==
    { <<"disconnected", "connecting">>, <<"connecting", "connected">>,
      <<"connecting", "disconnected">>, <<"connected", "disconnected">>,
      <<"disconnected", "reconnecting">>, <<"reconnecting", "connecting">> }

\* C9: every status change reported through onConnectionStatusChange is one
\* of disconnected->connecting, connecting->connected,
\* connecting->disconnected, connected->disconnected,
\* disconnected->reconnecting, reconnecting->connecting.
C9_StatusCycle ==
    \A r \in ReconnectOutcomes : StatusChanges(r) \subseteq CycleTransitions

\* C10: connectSocket with a Session moves the status disconnected ->
\* connecting -> connected; the match-data handler is installed before the
\* socket is opened, and 'connected' is reported only by the continuation
\* that runs after the socket opened and the grace delay elapsed.
C10_HandlerBeforeConnected ==
    /\ \A ref \in Refs(St) :
          ref.x.state \in {"connecting", "open"} =>
              ref.x.onmatchdata /\ ref.x.handler # NoHandler
    /\ (session /\ connectionStatus = "disconnected") =>
          StatusChanges(ConnectSocketOut) = {<<"disconnected", "connecting">>}
    /\ \A ref \in Gracing :
          /\ ref.x.state # "connecting"
          /\ GraceElapsedOut(ref).connectionStatus = "connected"
          /\ connectionStatus = "connecting" =>
                StatusChanges(GraceElapsedOut(ref)) = {<<"connecting", "connected">>}
    /\ \A r \in ReconnectOutcomes \ {GraceElapsedOut(ref) : ref \in Gracing} :
          \A c \in StatusChanges(r) : c[2] # "connected"

\* the socket is open with its handlers, the grace delay is running and the
\* status is still 'connecting'
C10_Witness ==
    /\ connectionStatus = "connecting"
    /\ socket.state = "open" /\ socket.conn = "awaitGrace" /\ socket.onmatchdata

\* a run of code seen as the state it leaves
Quiet(r) == [r EXCEPT !.out = << >>]

Returned(r, method, value) ==
    \E i \in 1..Len(r.out) : r.out[i] = Ev("return", method, value)

\* what authenticate does with a name conflict, whatever Session is held
NameConflictReported(r) ==
    /\ Returned(r, "authenticate", "false")
    /\ HasError(r, ErrNameTaken) /\ ~HasError(r, ErrAuth)
    /\ \A n \in Nicknames :
          /\ HasError(AuthenticateOut(n, "rejected"), ErrAuth)
          /\ ~HasError(AuthenticateOut(n, "rejected"), ErrNameTaken)
    /\ r.socket = socket /\ r.leaked = leaked

\* a connectSocket that returns false, makes no socket and reports no status
NoChannelOpened(r) ==
    connectSocket(Quiet(r), FALSE) = Return(Quiet(r), "connectSocket", "false")

\* C11 as stated: after a name conflict (status 409) authenticate resolves
\* as failure with the name-taken error, distinct from the generic one, no
\* Session exists and a following connectSocket returns false without
\* creating a socket or changing the status.
C11_NameConflictLeavesNoSession ==
    \A n \in Nicknames :
        LET r == AuthenticateOut(n, "conflict")
        IN NameConflictReported(r) /\ ~r.session /\ NoChannelOpened(r)

\* C11 amended: after a name conflict authenticate resolves as failure with
\* the name-taken error, distinct from the generic one, and creates no
\* Session: the Session is as it was before the call; when none was held, a
\* following connectSocket returns false without creating a socket or
\* changing the status.
C11_NameConflictCreatesNoSession ==
    \A n \in Nicknames :
        LET r == AuthenticateOut(n, "conflict")
        IN /\ NameConflictReported(r)
           /\ r.session = session
           /\ ~session => NoChannelOpened(r)

\* the device token is stored, no Session is held and the service answers
\* the authentication with a name conflict
C11_Witness ==
    /\ deviceId /\ ~session /\ socket = Null
    /\ HasError(AuthenticateOut(1, "conflict"), ErrNameTaken)

\* C12: disconnect() leaves socket, Session and MatchHandle null and raises
\* no error from any state; called again, or with no socket, it raises
\* nothing and leaves the state as it is.
C12_DisconnectIdempotent ==
    LET r1 == disconnect(St)
        r2 == disconnect(Quiet(r1))
    IN /\ r1.socket = Null /\ ~r1.session /\ r1.matchId = 0
       /\ \A i \in 1..Len(r1.out) : r1.out[i].type # "error"
       /\ r2 = Quiet(r1)
       /\ socket = Null => Quiet(r1) = [St EXCEPT !.session = FALSE, !.matchId = 0]

C12_Witness ==
    /\ session /\ socket.state = "open" /\ matchId # 0
    /\ DisconnectOut.matchId = 0

\* C13: logout() disconnects and clears the persisted identity: afterwards
\* hasStoredIdentity() is false, getStoredUsername() is null and Session,
\* socket and MatchHandle are null.
C13_LogoutClearsIdentity ==
    LET r == LogoutOut
    IN /\ ~hasStoredIdentity(r) /\ getStoredUsername(r) = 0
       /\ ~r.session /\ r.socket = Null /\ r.matchId = 0
       /\ Quiet(r) = [Quiet(disconnect([St EXCEPT !.isLoggingOut = FALSE]))
                        EXCEPT !.deviceId = FALSE, !.username = 0]

C13_Witness ==
    /\ deviceId /\ username # 0 /\ session /\ socket.state = "open"
    /\ matchId # 0 /\ Racing = {}
    /\ ~hasStoredIdentity(LogoutOut)

\* the game state as the service sends it
Encode(snapshot) == <<"{", snapshot, "}">>

Recognized == {STATE_UPDATE, WEBRTC_OFFER, WEBRTC_ANSWER, WEBRTC_ICE_CANDIDATE}

\* C16: an inbound envelope whose op_code is not a recognized discriminator
\* is dropped: no callback is invoked, nothing is thrown, and Session,
\* MatchHandle and connection status (and everything else) are unchanged.
C16_UnknownOpCodeDropped ==
    Receiving # {} =>
        \A matchData \in Envelopes :
            matchData.op_code \notin Recognized => MatchDataOut(matchData) = St

C16_Witness ==
    /\ Receiving # {} /\ session /\ connectionStatus = "connected"
    /\ \E matchData \in Envelopes :
          matchData.op_code = MaxOpCode /\ MatchDataOut(matchData).out = << >>

\* C17: an envelope with op_code STATE_UPDATE and a decodable payload raises
\* onMatchStateUpdate exactly once with the decoded snapshot; an undecodable
\* payload raises no event and throws nothing.
C17_StateUpdateRaisedOnce ==
    Receiving # {} =>
        \A sender \in Senders :
            /\ \A snapshot \in Snapshots :
                  MatchDataOut([op_code |-> STATE_UPDATE, data |-> Encode(snapshot),
                                sender |-> sender])
                      = Emit(St, Ev("onMatchStateUpdate", snapshot, ""))
            /\ \A data \in Datas \ ({Encode(x) : x \in Snapshots} \cup {<<"null">>}) :
                  MatchDataOut([op_code |-> STATE_UPDATE, data |-> data,
                                sender |-> sender]) = St

C17_Witness ==
    /\ Receiving # {} /\ session /\ connectionStatus = "connected"
    /\ MatchDataOut([op_code |-> STATE_UPDATE, data |-> Encode("active"),
                     sender |-> "u1"]).out # << >>

\* the method of the voice controller an op_code belongs to
VoiceHandler(op_code) ==
    CASE op_code = WEBRTC_OFFER -> "handleOffer"
      [] op_code = WEBRTC_ANSWER -> "handleAnswer"
      [] op_code = WEBRTC_ICE_CANDIDATE -> "handleIceCandidate"

\* C18: an inbound envelope with op_code WEBRTC_OFFER, WEBRTC_ANSWER or
\* WEBRTC_ICE_CANDIDATE is forwarded to handleOffer, handleAnswer or
\* handleIceCandidate of the voice controller with the sender attached.
C18_SignalingForwarded ==
    Receiving # {} =>
        \A matchData \in Envelopes :
            matchData.op_code \in {WEBRTC_OFFER, WEBRTC_ANSWER, WEBRTC_ICE_CANDIDATE} =>
                \E i \in 1..Len(MatchDataOut(matchData).out) :
                    /\ MatchDataOut(matchData).out[i].type = VoiceHandler(matchData.op_code)
                    /\ MatchDataOut(matchData).out[i].a = matchData.sender

\* ---------------------------------------------------- claims on matches
Sent(r) == {i \in 1..Len(r.out) : r.out[i].type = "send"}

Joined(r) == {i \in 1..Len(r.out) : r.out[i].type = "matchJoined"}

\* the requests of findMatch in flight: its rpc and its join
Finding == {p \in InFlight : p.q \in p.ref.x.reqs /\ p.q.op = "find"}

FindJoining == {p \in InFlight : p.q \in p.ref.x.reqs /\ p.q.op = "fjoin"}

\* findMatch ended as a failure: false, the error surfaced, nothing sent,
\* onMatchJoined not raised, MatchHandle as it was
FindMatchFailed(r) ==
    /\ Returned(r, "findMatch", "false") /\ HasError(r, ErrFind)
    /\ Sent(r) = {} /\ Joined(r) = {}
    /\ r.matchId = matchId

\* C19: findMatch first sends the find_match request and nothing else; only
\* its answer makes it send the join, for the id of the answer; the answer of
\* the join sets MatchHandle to the joined match, raises onMatchJoined once
\* and returns true; a rejection of either request, an undecodable answer or
\* a socket gone in between returns false, surfaces the error and leaves
\* MatchHandle unchanged.
C19_FindThenJoin ==
    /\ (socket.state = "open" /\ RoomForRequest(St)) =>
           /\ FindMatchOut.out = <<Ev("send", "find", "0")>>
           /\ FindMatchOut.matchId = matchId
    /\ (socket.state \notin {"null", "open"}) => FindMatchFailed(FindMatchOut)
    /\ \A p \in Finding :
           /\ FindMatchFailed(RequestRejectedOut(p.ref, p.q))
           /\ p.ref.x.state = "open" =>
                  \A id \in {0} \cup MatchIds :
                      LET o == RequestResolvedOut(p.ref, p.q, id)
                      IN IF id # 0 /\ o.socket.state = "open"
                         THEN /\ o.out = <<Ev("send", "fjoin", ToString(id))>>
                              /\ Req("fjoin", id) \in o.socket.reqs
                              /\ o.matchId = matchId
                         ELSE FindMatchFailed(o)
    /\ \A p \in FindJoining :
           /\ FindMatchFailed(RequestRejectedOut(p.ref, p.q))
           /\ p.ref.x.state = "open" =>
                  LET o == RequestResolvedOut(p.ref, p.q, p.q.id)
                  IN /\ o.matchId = p.q.id
                     /\ Cardinality(Joined(o)) = 1
                     /\ Returned(o, "findMatch", "true")
                     /\ ~HasError(o, ErrFind) /\ Sent(o) = {}

\* the join of findMatch is about to be answered while another match is held
C19_Witness ==
    \E p \in FindJoining : p.ref.x.state = "open" /\ p.ref.this

\* the call ended with this value, sent nothing and changed no field
FailedQuietly(r, method, value) ==
    /\ Returned(r, method, value)
    /\ Sent(r) = {}
    /\ Quiet(r) = St

NotConnected == socket.state # "open"

\* C20: with the channel not connected (no socket, or a socket that is not
\* open) cancelMatch, leaveMatch and sendMove return void, joinMatch returns
\* false and getLeaderboard returns the empty list; so do cancelMatch,
\* leaveMatch and sendMove with no match joined; each call sends nothing and
\* changes no field of the service.  A request that went out and is rejected
\* ends in the catch block with the same value and no field changed.
C20_BestEffortOperations ==
    /\ (NotConnected \/ matchId = 0) =>
           /\ FailedQuietly(CancelMatchOut, "cancelMatch", "void")
           /\ FailedQuietly(LeaveMatchOut, "leaveMatch", "void")
           /\ FailedQuietly(SendMoveOut, "sendMove", "void")
    /\ NotConnected =>
           /\ \A id \in MatchIds : FailedQuietly(JoinMatchOut(id), "joinMatch", "false")
           /\ \A response \in {"list", "malformed", "rejected"} :
                  FailedQuietly(GetLeaderboardOut(response), "getLeaderboard", "[]")
    /\ \A p \in InFlight :
           (p.q \in p.ref.x.reqs /\ p.q.op \in {"join", "leaveMatch", "cancelMatch"}) =>
               LET o == RequestRejectedOut(p.ref, p.q)
               IN /\ Returned(o, IF p.q.op = "join" THEN "joinMatch" ELSE p.q.op,
                               IF p.q.op = "join" THEN "false" ELSE "void")
                  /\ Sent(o) = {}
                  /\ Quiet(o) = Quiet(Answered(St, p.ref, p.q))

\* a match is joined and this.socket is a socket that is no longer open
C20_Witness == matchId # 0 /\ socket.state \notin {"null", "open"}

\* ------------------------------------------------ claims on the voice service
\* every field of the service that holds an object or a callback is null
AllNull(v) ==
    /\ ~v.peerConnection /\ ~v.localStream /\ ~v.remoteStream
    /\ ~v.remoteAudio /\ ~v.audioContext /\ ~v.vadInterval
    /\ ~v.localAnalyser /\ ~v.remoteAnalyser
    /\ ~v.sendSignalCallback /\ ~v.voiceActivityCallback

\* no object the service created is still running
AllReleased(v) ==
    /\ v.strayStreams = 0 /\ v.strayPeers = 0
    /\ v.strayContexts = 0 /\ v.strayIntervals = 0

\* C14: cleanup() from any state, also before init() and right after another
\* cleanup(), raises nothing, leaves every field null and leaves no media
\* track active and no peer connection, audio context or VAD timer running;
\* a second cleanup() changes nothing.
C14_CleanupReleasesAll ==
    /\ CleanupOut.out = << >>
    /\ AllNull(CleanupOut)
    /\ cleanup(CleanupOut) = CleanupOut
    /\ AllReleased(CleanupOut)

\* the steps of the service other than toggleMute, cleanup and a failed init
MuteKeepingSteps ==
    {InitOut(b) : b \in BOOLEAN}
    \cup {VadTickOut(l, r) : l \in BOOLEAN, r \in BOOLEAN}
    \cup {RemoteTrackOut, SetVoiceActivityCallbackOut}
    \cup (IF voice.micPending > 0 THEN {MicGrantedOut} ELSE {})
    \cup (IF voice.offerPending > 0 THEN {OfferCreatedOut, OfferFailedOut} ELSE {})
    \cup {HandleOfferOut, HandleAnswerOut, HandleIceCandidateOut}
    \cup {ConnectionStateChangeOut(state) : state \in ConnectionStates}
    \cup {HandlerFailedOut(at) : at \in {a \in Awaits : voice.handling[a] > 0}}
    \cup (IF voice.handling.offerRemote > 0 THEN {OfferAppliedOut} ELSE {})
    \cup (IF voice.handling.offerAnswer > 0 THEN {AnswerCreatedOut} ELSE {})
    \cup (IF voice.handling.offerLocal > 0 THEN {AnswerSetOut} ELSE {})
    \cup (IF voice.handling.answer > 0 THEN {AnswerAppliedOut} ELSE {})
    \cup (IF voice.handling.ice > 0 THEN {CandidateAddedOut} ELSE {})

\* C15 as stated: once toggleMute() has returned muted, and until it returns
\* unmuted, no tick of the sampling timer invokes the callback with
\* (speaking = true, local = true), whatever the input levels.
C15_NoLocalSpeakingSinceMuted ==
    voice.toggleReturned = "muted" =>
        \A l \in BOOLEAN, r \in BOOLEAN : ~Reported(VadTickOut(l, r), "true", "true")

\* C15 amended: toggleMute() returns muted exactly when it leaves isMuted
\* set; isMuted stays set through every step but toggleMute and cleanup (a
\* failed init runs cleanup); and while it is set no tick of the sampling
\* timer invokes the callback for the local stream or changes the latched
\* local value, whatever the input levels.
C15_NoLocalSpeakingWhileMuted ==
    /\ Returned(toggleMute(voice), "toggleMute", "true") <=> toggleMute(voice).isMuted
    /\ voice.localStream => toggleMute(voice).isMuted = ~voice.isMuted
    /\ \A o \in MuteKeepingSteps : o.isMuted = voice.isMuted
    /\ voice.isMuted =>
           \A l \in BOOLEAN, r \in BOOLEAN :
               /\ ~Reported(VadTickOut(l, r), "true", "true")
               /\ ~Reported(VadTickOut(l, r), "false", "true")
               /\ VadTickOut(l, r).isLocalSpeaking = voice.isLocalSpeaking

\* muted, with the sampling timer running on the local analyser, the callback
\* set and silence latched: a loud sample would be reported but for the mute
C15_Witness ==
    /\ voice.isMuted /\ voice.toggleReturned = "muted"
    /\ voice.vadInterval /\ voice.localAnalyser /\ voice.voiceActivityCallback
    /\ ~voice.isLocalSpeaking

\* init reported failure and holds nothing of the session it began
FailedClean(v) ==
    /\ Returned(v, "init", "false")
    /\ ~v.peerConnection /\ ~v.localStream /\ ~v.sendSignalCallback

\* C21: whichever step of init() fails (the microphone, the creation of the
\* peer connection, the attachment of the tracks, the offer of the
\* initiator), init returns false and cleanup has run: no peer connection,
\* local stream or send callback is held.
C21_FailedInitCleansUp ==
    /\ voice.micPending > 0 =>
           /\ FailedClean(MicDeniedOut)
           /\ FailedClean(PeerFailedOut)
           /\ FailedClean(TrackFailedOut)
    /\ voice.offerPending > 0 => FailedClean(OfferFailedOut)

\* C22: a refused microphone makes init() end with an outcome its caller can
\* tell from the outcome of every other failing step, and creates no peer
\* connection.
C22_MicrophoneDeniedDistinct ==
    voice.micPending > 0 =>
        /\ Returned(MicDeniedOut, "init", "false")
        /\ MicDeniedOut.out # PeerFailedOut.out
        /\ MicDeniedOut.out # TrackFailedOut.out
        /\ ~MicDeniedOut.peerConnection
        /\ MicDeniedOut.strayPeers = voice.strayPeers

Signalled(v) == {i \in 1..Len(v.out) : v.out[i].type = "signal"}

\* C23: toggleMute() returns the mute state it leaves; with a local stream
\* that state is the negation of the one before, the tracks of the stream
\* are enabled exactly when it is false, no other field changes, no signal
\* is sent, and a second toggleMute() brings back the state before the
\* first; without a local stream nothing changes.
C23_ToggleMute ==
    LET o == toggleMute(voice)
        oo == toggleMute(Quiet(o))
    IN /\ Returned(o, "toggleMute", Bool(o.isMuted))
       /\ Len(o.out) = 1 /\ Signalled(o) = {}
       /\ voice.localStream =>
              /\ o.isMuted = ~voice.isMuted
              /\ o.enabled = ~o.isMuted
              /\ Quiet(o) = [voice EXCEPT !.isMuted = o.isMuted,
                                          !.enabled = o.enabled]
              /\ oo.isMuted = voice.isMuted
              /\ oo.enabled = ~voice.isMuted
       /\ ~voice.localStream => Quiet(o) = voice

\* muted by toggleMute, the stream held: the next toggleMute unmutes
C23_Witness ==
    voice.localStream /\ voice.isMuted /\ voice.toggleReturned = "muted"

\* ------------------------------------------------- claims on reconnection
\* the invocations of connectSocket that await the opening of a socket that
\* is being opened
AwaitingOpen ==
    {ref \in Refs(St) : ref.x.conn = "awaitConnect" /\ ref.x.state = "connecting"}

\* C24: at most one reconnect timer is pending, and while an invocation of
\* connectSocket awaits the opening of its socket no reconnect timer can fire
\* and start another one.  (The claim also covers the grace delay; it is
\* left out here because a timer set during the 100 ms grace delay cannot
\* fire within it, and the model keeps no clock.)
C24_ReconnectsSequential ==
    /\ Cardinality(timers) <= 1
    /\ (timers # {} /\ session) => AwaitingOpen = {}

\* the matches the service holds a presence of this client in
JoinedOnService == UNION {x.joined : x \in {socket} \cup leaked}

\* C25: the client is joined to at most one match on the service, and
\* matchId is non-null only while the service holds the client, on the
\* socket the service refers to, in that match.
C25_MatchHandleTracksMembership ==
    /\ Cardinality(JoinedOnService) <= 1
    /\ matchId # 0 => matchId \in socket.joined

\* the invocations of the callback for a stream in a run of code
Reports(v, local) ==
    {i \in 1..Len(v.out) : v.out[i].type = "voiceActivity" /\ v.out[i].b = local}

\* a tick reports for a stream at most once, never the value it reported
\* last, and nothing when the sample is classified as the value reported last
OnlyTransitions(o, local, loud, last) ==
    /\ Cardinality(Reports(o, local)) <= 1
    /\ \A i \in Reports(o, local) : o.out[i].a = Bool(loud) /\ o.out[i].a # last
    /\ Bool(loud) = last => Reports(o, local) = {}

\* C26: whatever the two samples of a tick, the callback is invoked for a
\* stream only with a value that differs from the one it was last invoked
\* with for that stream, and not at all when the sample is classified as
\* that value.
C26_OnlyTransitionsReported ==
    \A l \in BOOLEAN, r \in BOOLEAN :
        /\ OnlyTransitions(VadTickOut(l, r), "true", l, voice.reportedLocal)
        /\ OnlyTransitions(VadTickOut(l, r), "false", r, voice.reportedRemote)

\* local speaking was reported and the timer samples the unmuted microphone:
\* a loud sample now is no transition, a quiet one is
C26_Witness ==
    /\ voice.reportedLocal = "true" /\ voice.reportedRemote = "false"
    /\ voice.vadInterval /\ voice.localAnalyser /\ voice.remoteAnalyser
    /\ ~voice.isMuted

\* the signals of one kind sent in a run of code
Signals(v, kind) ==
    {i \in 1..Len(v.out) : v.out[i] = Ev("signal", kind, "")}

\* the ways an init() that reached the offer of the initiator ends
InitiatorEndings ==
    IF voice.offerPending > 0 THEN {OfferCreatedOut, OfferFailedOut} ELSE {}

\* the runs of code of init() before the offer, and of a responder's init()
InitBeforeOffer ==
    {InitOut(b) : b \in BOOLEAN}
    \cup (IF voice.micPending > 0
          THEN {MicGrantedOut, MicDeniedOut, PeerFailedOut, TrackFailedOut}
          ELSE {})

\* the runs of code of handleOffer before the answer is set, and its failures
HandleOfferBeforeSet ==
    {HandleOfferOut}
    \cup (IF voice.handling.offerRemote > 0
          THEN {OfferAppliedOut, HandlerFailedOut("offerRemote")} ELSE {})
    \cup (IF voice.handling.offerAnswer > 0
          THEN {AnswerCreatedOut, HandlerFailedOut("offerAnswer")} ELSE {})
    \cup (IF voice.handling.offerLocal > 0
          THEN {HandlerFailedOut("offerLocal")} ELSE {})

\* the runs of code of handleAnswer
HandleAnswerRuns ==
    {HandleAnswerOut}
    \cup (IF voice.handling.answer > 0
          THEN {AnswerAppliedOut, HandlerFailedOut("answer")} ELSE {})

\* C27: an init() of the initiator ends having sent exactly one offer; no
\* other run of init() sends one; an answer is sent only by the run of
\* handleOffer that follows the setting of the local answer, which follows
\* the application of the remote offer, and at most once; handleAnswer sends
\* nothing.
C27_OfferAnswerOrdering ==
    /\ \A o \in InitiatorEndings :
           Cardinality(Signals(o, "offer")) = 1 /\ Signals(o, "answer") = {}
    /\ \A o \in InitBeforeOffer : Signalled(o) = {}
    /\ \A o \in HandleOfferBeforeSet : Signalled(o) = {}
    /\ voice.handling.offerLocal > 0 =>
           /\ Cardinality(Signals(AnswerSetOut, "answer")) <= 1
           /\ Signals(AnswerSetOut, "offer") = {}
    /\ \A o \in HandleAnswerRuns : Signalled(o) = {}

\* the call returned, raised nothing, sent nothing and changed no field, so
\* that what follows runs as if the message had never come
Dropped(o, method) ==
    /\ o = Return(voice, method, "void")
    /\ voice.micPending > 0 => micGranted(Quiet(o)) = micGranted(voice)

\* C28: with no peer connection object handleIceCandidate, handleOffer and
\* handleAnswer return at once: no field changes, nothing is kept for later,
\* nothing is sent, nothing is raised; the creation of the object afterwards
\* goes as if the message had never come.
C28_EarlySignalsDropped ==
    ~voice.peerConnection =>
        /\ Dropped(HandleIceCandidateOut, "handleIceCandidate")
        /\ Dropped(HandleOfferOut, "handleOffer")
        /\ Dropped(HandleAnswerOut, "handleAnswer")

\* init() awaits the microphone: the peer connection does not exist yet
C28_Witness ==
    ~voice.peerConnection /\ voice.micPending > 0 /\ voice.sendSignalCallback

\* no local track, remote playback or sampling timer of the session is active
SessionReleased(v) == ~v.localStream /\ ~v.remoteAudio /\ ~v.vadInterval

\* C29: after cleanup(), and after the connection of the peer connection
\* moved to 'failed' or 'disconnected', no local track, remote playback or
\* VAD timer of the session remains active.
C29_ClosedReleasesMedia ==
    /\ SessionReleased(CleanupOut)
    /\ voice.peerConnection =>
           \A state \in {"failed", "disconnected"} :
               SessionReleased(ConnectionStateChangeOut(state))

\* C30: every peer connection and every microphone stream ever acquired is
\* the one the service references or has been closed / stopped.
C30_SinglePeerSession == voice.strayPeers = 0 /\ voice.strayStreams = 0

\* C31: when the peer connection rejects what handleOffer, handleAnswer or
\* handleIceCandidate awaits, the call returns without raising, sends no
\* signal and changes no field: no cleanup runs, the peer connection and
\* the local stream stay held, and the next message is taken up.
C31_FailedSignalDroppedAlone ==
    \A at \in Awaits :
        voice.handling[at] > 0 =>
            LET o == HandlerFailedOut(at)
            IN /\ o.out = << Ev("return", HandlerOf(at), "void") >>
               /\ Signalled(o) = {}
               /\ [Quiet(o) EXCEPT !.handling = voice.handling] = voice
               /\ o.handling[at] = voice.handling[at] - 1
               /\ voice.peerConnection =>
                      /\ handleIceCandidate(Quiet(o)).handling.ice
                             = o.handling.ice + 1
                      /\ handleAnswer(Quiet(o)).handling.answer
                             = o.handling.answer + 1

\* an answer came while no offer of this side was outstanding, and the
\* session holds its peer connection and microphone stream
C31_Witness ==
    /\ voice.handling.answer > 0 /\ voice.signalingState = "stable"
    /\ voice.peerConnection /\ voice.localStream /\ voice.sendSignalCallback

\* C32: whenever the connection status is 'connected' a Session and a
\* socket are held, that is, isAuthenticated() is true.
C32_ConnectedImpliesAuthenticated ==
    connectionStatus = "connected" => isAuthenticated(St)

\* no reconnect timer is pending and no socket object can raise an event
\* or resume a connectSocket: the status changes no more unless the
\* application calls the service again
Settled == timers = {} /\ leaked = {} /\ ~Live(socket)

\* C33: once disconnect() or logout() has returned, a reconnect timer that
\* fires opens no socket, and when the timers and socket events it left
\* behind have run out the connection status is 'disconnected', not
\* 'reconnecting', 'connecting' or 'connected'.
C33_DisconnectStaysDisconnected ==
    ~session =>
        /\ \A t \in timers :
               /\ TimerFireOut(t).socket = socket
               /\ TimerFireOut(t).leaked = leaked
        /\ Settled => connectionStatus = "disconnected"

\* the open socket objects whose ondisconnect is the closure of a
\* deleteUserData invocation, in flight or returned
HandlerNotRestored ==
    {x \in leaked \cup {socket} :
        x.state = "open" /\ x.handler.kind \in {"delete", "stale"}}

\* C34: whenever no deleteUserData invocation is in flight, isLoggingOut is
\* false, maxReconnectAttempts is 10 and every open socket object has the
\* disconnect handler it had before the invocation.
C34_DeleteRestoresState ==
    Racing = {} =>
        /\ isLoggingOut = FALSE
        /\ maxReconnectAttempts = InitialMaxReconnectAttempts
        /\ HandlerNotRestored = {}

\* the runs of code in which a socket raises its disconnect event
DisconnectEvents ==
    {SocketCloseOut(ref) : ref \in Closing} \cup {DisconnectOut, LogoutOut}

\* C35: reconnectAttempts stays within 0..10 and the ceiling is 10 or, while
\* an account deletion is in flight, 0; a disconnect event raises the
\* counter by one at most, and only when it is below the ceiling.
C35_AttemptsWithinCeiling ==
    /\ reconnectAttempts \in 0..InitialMaxReconnectAttempts
    /\ maxReconnectAttempts \in {0, InitialMaxReconnectAttempts}
    /\ \A t \in timers : t.attempt \in 1..InitialMaxReconnectAttempts
    /\ \A r \in DisconnectEvents :
           r.reconnectAttempts # reconnectAttempts =>
               /\ reconnectAttempts < maxReconnectAttempts
               /\ r.reconnectAttempts = reconnectAttempts + 1

\* the counter stands at the ceiling while an account deletion, which set
\* the ceiling to 0, is in flight and a socket can still drop
C35_Witness ==
    /\ reconnectAttempts = InitialMaxReconnectAttempts
    /\ maxReconnectAttempts = 0 /\ Racing # {}
    /\ Closing # {}

\* C36: an authenticate that the service rejects, with a name conflict or
\* otherwise, returns false and leaves the Session, the persisted display
\* name and every other field as they were; the call up to its await does
\* not touch them either, so that the name is persisted only by the
\* continuation of a successful authentication, which stores the name given.
C36_FailedAuthenticateChangesNothing ==
    /\ AuthenticateCallOut.session = session
    /\ AuthenticateCallOut.username = username
    /\ \A n \in Nicknames :
           /\ \A response \in Responses \ {"ok"} :
                  LET r == AuthenticateOut(n, response)
                  IN /\ Returned(r, "authenticate", "false")
                     /\ r.session = session /\ r.username = username
                     /\ Quiet(r) = St
           /\ AuthenticateOut(n, "ok").username = n
           /\ AuthenticateOut(n, "ok").session

\* an authenticate is answered while no display name is persisted, and
\* while a Session is held
C36_Witness ==
    /\ authCalled /\ deviceId
    /\ (username = 0 /\ ~session) \/ (username # 0 /\ session)
    /\ HasError(AuthenticateOut(1, "rejected"), ErrAuth)

\* cleanup() ran after the init() calls that are still awaiting began:
\* init sets currentUserId and only cleanup clears it
CleanedWhileAwaiting ==
    voice.micPending + voice.offerPending > 0 /\ ~voice.currentUserId

\* the ways an init() that awaits settles
InitSettlings ==
    (IF voice.micPending > 0
     THEN {o \in {MicGrantedOut, MicDeniedOut, PeerFailedOut, TrackFailedOut} :
              o.offerPending = voice.offerPending}
     ELSE {})
    \cup (IF voice.offerPending > 0
          THEN {OfferCreatedOut, OfferFailedOut} ELSE {})

\* C37: when cleanup() was called while init() awaited the microphone or
\* the offer, init() settles holding no local stream, no peer connection
\* and no send callback, and sends no signaling message.
C37_CleanupDuringInit ==
    CleanedWhileAwaiting =>
        \A o \in InitSettlings :
            /\ ~o.localStream /\ ~o.peerConnection /\ ~o.sendSignalCallback
            /\ Signalled(o) = {}

\* the interval timers started and not cleared, and the audio contexts
\* created and not closed
LiveIntervals(v) == (IF v.vadInterval THEN 1 ELSE 0) + v.strayIntervals
LiveContexts(v) == (IF v.audioContext THEN 1 ELSE 0) + v.strayContexts

\* C38: at most one sampling timer and one audio context are live, whatever
\* number of remote-track events has arrived, and none after cleanup().
C38_OneSamplingTimer ==
    /\ LiveIntervals(voice) <= 1 /\ LiveContexts(voice) <= 1
    /\ LiveIntervals(CleanupOut) = 0 /\ LiveContexts(CleanupOut) = 0

\* C39: while the microphone is muted, a tick of the sampling timer leaves
\* the latched isLocalSpeaking false and the value last delivered to the
\* callback for the local stream not 'speaking', whatever was latched and
\* delivered when the mute was applied.
C39_MutedReadsNotSpeaking ==
    (voice.isMuted /\ (voice.vadInterval \/ voice.strayIntervals > 0)) =>
        \A l \in BOOLEAN, r \in BOOLEAN :
            LET o == VadTickOut(l, r)
            IN /\ ~o.isLocalSpeaking
               /\ LastReported(o, voice.reportedLocal, "true") # "true"
====
